---- MODULE Spec2Model ----
(***************************************************************************)
(* A model of the editable-blog application.                               *)
(*                                                                         *)
(* Server (src/server.js): an express application whose handlers read the  *)
(* clock synchronously, issue one query to the Supabase table `posts` and  *)
(* answer when the query's result arrives.  A handler that writes is two   *)
(* steps, the synchronous part up to the await and the store applying the  *)
(* query, so that concurrent requests interleave as they do in node.       *)
(*                                                                         *)
(* Client (src/unnamed/part_000): the page script, with its three screens, *)
(* currentPostId and the fetches whose answers are still awaited.          *)
(*                                                                         *)
(* Uploads: handleFileUpload of the page script and POST /api/upload, with *)
(* multer's file filter and size limit and the media store's bucket.       *)
(***************************************************************************)
EXTENDS Integers, Sequences, FiniteSets, Bags, TLC

\* ------------------------------------------------------------------ bounds

\* The last clock reading (milliseconds since the first one) of a run.
MaxClock == 1

\* The number of HTTP requests of a run.
MaxReqs == 3

\* The number of store writes awaited at the same time.
MaxInflight == 2

\* The number of user actions of a client run.
MaxActs == 4

\* The number of characters of a content, after its run of plain text, where
\* all contents are listed.
MaxMarkup == 4

\* The number of files a user hands to the editor in a run.
MaxUploads == 3

\* ------------------------------------------------------------- the server

VARIABLES
    clock,      \* Date.now(), in milliseconds
    posts,      \* the table `posts`: id -> row, id being the primary key
    inflight,   \* the bag of inserts and updates issued by a handler and awaited
    last,       \* the request answered last: the store's result, the response
    nReq,       \* the number of requests received so far
    nCreates,   \* the create requests whose insert reached a working store
    issuedIds,  \* the ids computed by the create handler so far
    deletedOK,  \* the ids whose delete was served and answered with success
    createdAs   \* id -> the body of the create request that stored the post,
                \* for the posts neither updated nor deleted since

\* The page script (declared here, modelled below).
VARIABLES
    hidden,         \* the 'hidden' class of the three screens' elements
    currentPostId,  \* line 2
    pending,        \* the bag of awaits of the page script not yet resumed
    cards,          \* the ids of the post cards in postsContainer
    editorTitle,    \* editorTitle.value
    editorContent,  \* editorContent.innerHTML
    nActs,          \* the number of user actions so far
    session,        \* since openEditor was last called: whether it was for a new
                    \* post, and the number of create requests savePost sent
    stale           \* the awaits started before the user's latest click that
                    \* shows a screen at once (home, back, new post, cancel)

\* The uploads: the page script's handleFileUpload and POST /api/upload
\* (declared here, modelled below).
VARIABLES
    xfers,      \* the bag of uploads started by handleFileUpload and not resumed
    media,      \* the bucket 'uploads' of the media store: the objects it holds
    uploading,  \* the 'uploading' class of editorContent
    appended,   \* the elements handleFileUpload appended to editorContent
    alerts,     \* the number of alerts handleFileUpload showed
    nUploads    \* the number of files handed to handleFileUpload so far

clientVars ==
    <<hidden, currentPostId, pending, cards, editorTitle, editorContent, nActs,
      session, stale>>

uploadVars == <<xfers, media, uploading, appended, alerts, nUploads>>

serverVars ==
    <<clock, posts, inflight, last, nReq, nCreates, issuedIds, deletedOK, createdAs>>

\* The table's schema is not part of the source. Its id column is taken to be
\* the primary key, as .eq('id', ...).single() supposes: an insert of an id
\* that is stored is refused.

\* An id n stands for the token `post-${n}`.
Ids == 0..MaxClock

\* A content is a string of HTML, as the sequence of its characters.
c1 == <<"x">>
c2 == <<"<", "b", ">", "y">>

\* req.body after express.json(): each of title and content may be missing
\* (undefined), empty or a non-empty string.
NoFields == <<>>
EmptyTitle == [title |-> "", content |-> c2]
EmptyContent == [title |-> "t2", content |-> <<>>]

\* The bodies of the create requests.
CreateBodies == { NoFields, EmptyTitle, EmptyContent, [title |-> "t1", content |-> c1] }

\* The bodies of the update requests.
UpdateBodies ==
    { NoFields, EmptyTitle, EmptyContent,
      [content |-> c2], [title |-> "t2", content |-> c2] }

\* Truthy with `!== undefined` for the truth test: an empty string passes.
Given(body, f) == f \in DOMAIN body

\* The bodies of the update requests of two editors of one post: each gives a
\* title and a content, and no two give the same title or the same content.
EditBodies == { [title |-> "t2", content |-> c2], [title |-> "t3", content |-> c1] }

\* `if (x)` on a field of the body: missing (undefined) and empty are falsy.
Truthy(body, f) ==
    /\ f \in DOMAIN body
    /\ body[f] # (IF f = "title" THEN "" ELSE <<>>)

\* new Date().toISOString(): the millisecond reading, in a fixed-width
\* notation whose order is the readings' order; the reading stands for it.
ToISOString(ms) == ms

\* The answer of the store to a query: `error` as the handler reads it.
\* "outage" is a failure of the store itself, "duplicate" an insert refused by
\* the primary key, "norows" .single() finding no row.
NoError == "none"

EmptyTable == [i \in {} |-> i]

\* The body of a request, where the answer does not depend on it.
NoReq == <<>>

ErrorJson(message) == [error |-> message]

Response(op, id, req, error, status, body) ==
    [op |-> op, req |-> req, id |-> id, error |-> error, status |-> status, body |-> body]

\* The JSON of a post, as get, create and update answer it.
PostJson(row) ==
    [id |-> row.id, title |-> row.title, content |-> row.content,
     createdAt |-> row.created_at, updatedAt |-> row.updated_at]

ServerInit ==
    /\ clock = 0
    /\ posts = EmptyTable
    /\ inflight = EmptyBag
    /\ last = Response("none", -1, NoReq, NoError, 0, ErrorJson("none"))
    /\ nReq = 0
    /\ nCreates = 0
    /\ issuedIds = {}
    /\ deletedOK = {}
    /\ createdAs = EmptyTable

\* createdAs once the create of `id` with `body` is stored, and once the post
\* `id` is updated or deleted.
Noted(given, id, body) ==
    [i \in DOMAIN given \cup {id} |-> IF i = id THEN body ELSE given[i]]

Forgotten(given, id) == [i \in DOMAIN given \ {id} |-> given[i]]

\* Time passes.
Tick ==
    /\ clock < MaxClock
    /\ clock' = clock + 1
    /\ UNCHANGED <<posts, inflight, last, nReq, nCreates, issuedIds, deletedOK, createdAs>>
    /\ UNCHANGED <<clientVars, uploadVars>>

\* NewPost with a fixed title, whatever the request gives.
NewPostUntitled(body, idMs, nowMs) ==
    [id |-> idMs, title |-> "Untitled", content |-> body.content,
     created_at |-> ToISOString(nowMs), updated_at |-> ToISOString(nowMs)]

\* Line 79-84: the row the create handler inserts, from the two clock readings.
NewPost(body, idMs, nowMs) ==
    [id |-> idMs, title |-> body.title, content |-> body.content,
     created_at |-> ToISOString(nowMs), updated_at |-> ToISOString(nowMs)]

\* POST /api/posts up to its await: the validation, the id and the timestamp
\* (two readings of the clock, which may tick between them), the insert issued.
CreateBegin(body) ==
    /\ nReq < MaxReqs
    /\ nReq' = nReq + 1
    /\ IF ~(Truthy(body, "title") /\ Truthy(body, "content"))
       THEN /\ last' = Response("create", -1, NoReq, NoError, 400,
                                ErrorJson("Title and content required"))
            /\ UNCHANGED <<clock, inflight, issuedIds>>
       ELSE /\ BagCardinality(inflight) < MaxInflight
            /\ \E now \in {clock, clock + 1} \cap (0..MaxClock) :
                  /\ clock' = now
                  /\ inflight' = inflight (+) SetToBag(
                        {[op |-> "insert", id |-> clock, req |-> body,
                          data |-> NewPost(body, clock, now)]})
            /\ issuedIds' = issuedIds \cup {clock}
            /\ UNCHANGED last
    /\ UNCHANGED <<posts, nCreates, deletedOK, createdAs>>
    /\ UNCHANGED <<clientVars, uploadVars>>

\* .insert(row): the table with the row added.
InsertRow(table, row) ==
    [i \in DOMAIN table \cup {row.id} |-> IF i = row.id THEN row ELSE table[i]]

\* POST /api/posts from its await on: the store applies the insert (or fails,
\* or refuses a second row with the same primary key) and the handler answers.
CreateApply(q) ==
    /\ BagIn(q, inflight)
    /\ q.op = "insert"
    /\ inflight' = inflight (-) SetToBag({q})
    /\ \E outage \in BOOLEAN :
          LET error == IF outage THEN "outage"
                       ELSE IF q.id \in DOMAIN posts THEN "duplicate"
                       ELSE NoError
          IN  /\ posts' = IF error = NoError THEN InsertRow(posts, q.data) ELSE posts
              /\ last' = IF error # NoError
                         THEN Response("create", q.id, NoReq, error, 500, ErrorJson(error))
                         ELSE Response("create", q.id, NoReq, error, 201, PostJson(posts'[q.id]))
              /\ nCreates' = IF outage THEN nCreates ELSE nCreates + 1
              /\ createdAs' = IF error = NoError THEN Noted(createdAs, q.id, q.req)
                               ELSE createdAs
    /\ UNCHANGED <<clock, nReq, issuedIds, deletedOK>>
    /\ UNCHANGED <<clientVars, uploadVars>>

\* UpdatesOf with `!== undefined` for the truth test: an empty string is set.
UpdatesOfGiven(body, now) ==
    [f \in {"updated_at"} \cup ({"title", "content"} \cap DOMAIN body) |->
        IF f = "updated_at" THEN now ELSE body[f]]

\* Line 104-106: the columns the update handler sets.
UpdatesOf(body, now) ==
    [f \in {"updated_at"} \cup {g \in {"title", "content"} : Truthy(body, g)} |->
        IF f = "updated_at" THEN now ELSE body[f]]

\* PUT /api/posts/:id up to its await: the timestamp is read, the update issued.
UpdateBegin(id, body) ==
    /\ nReq < MaxReqs
    /\ BagCardinality(inflight) < MaxInflight
    /\ nReq' = nReq + 1
    /\ inflight' = inflight (+) SetToBag(
          {[op |-> "update", id |-> id, req |-> body,
            data |-> UpdatesOf(body, ToISOString(clock))]})
    /\ UNCHANGED <<clock, posts, last, nCreates, issuedIds, deletedOK, createdAs>>
    /\ UNCHANGED <<clientVars, uploadVars>>

\* UpdateRows writing the title and the timestamp only: the content is lost.
UpdateRowsButContent(table, id, updates) ==
    [i \in DOMAIN table |->
        IF i = id
        THEN [f \in DOMAIN table[i] |->
                IF f \in DOMAIN updates \ {"content"} THEN updates[f] ELSE table[i][f]]
        ELSE table[i]]

\* UpdateRows as an upsert: a row of that id is added when there is none.
UpsertRows(table, id, updates) ==
    [i \in DOMAIN table \cup {id} |->
        IF i = id
        THEN [f \in {"id", "title", "content", "created_at", "updated_at"} |->
                IF f \in DOMAIN updates THEN updates[f]
                ELSE IF id \in DOMAIN table THEN table[id][f]
                ELSE IF f = "id" THEN id
                ELSE IF f = "title" THEN ""
                ELSE IF f = "content" THEN <<>>
                ELSE updates.updated_at]
        ELSE table[i]]

\* UpdateRows without its .eq('id', id): every row gets the columns set.
UpdateAllRows(table, id, updates) ==
    [i \in DOMAIN table |->
        [f \in DOMAIN table[i] |->
            IF f \in DOMAIN updates THEN updates[f] ELSE table[i][f]]]

\* .update(updates).eq('id', id): the rows with that id get the columns set
\* (no row, when the id is not stored).
UpdateRows(table, id, updates) ==
    [i \in DOMAIN table |->
        IF i = id
        THEN [f \in DOMAIN table[i] |->
                IF f \in DOMAIN updates THEN updates[f] ELSE table[i][f]]
        ELSE table[i]]

\* PUT /api/posts/:id from its await on: the store applies the update and
\* .single() gives the updated row, or an error when there is none.
UpdateApply(q) ==
    /\ BagIn(q, inflight)
    /\ q.op = "update"
    /\ inflight' = inflight (-) SetToBag({q})
    /\ \E outage \in BOOLEAN :
          LET error == IF outage THEN "outage"
                       ELSE IF q.id \notin DOMAIN posts THEN "norows"
                       ELSE NoError
          IN  /\ posts' = IF outage THEN posts ELSE UpdateRows(posts, q.id, q.data)
              /\ last' = IF error # NoError
                         THEN Response("update", q.id, q.req, error, 404, ErrorJson("Post not found"))
                         ELSE Response("update", q.id, q.req, error, 200, PostJson(posts'[q.id]))
              /\ createdAs' = IF error = NoError THEN Forgotten(createdAs, q.id)
                               ELSE createdAs
    /\ UNCHANGED <<clock, nReq, nCreates, issuedIds, deletedOK>>
    /\ UNCHANGED <<clientVars, uploadVars>>

\* GET /api/posts/:id.
Get(id) ==
    /\ nReq < MaxReqs
    /\ nReq' = nReq + 1
    /\ \E outage \in BOOLEAN :
          LET error == IF outage THEN "outage"
                       ELSE IF id \notin DOMAIN posts THEN "norows"
                       ELSE NoError
          IN  last' = IF error # NoError
                      THEN Response("get", id, NoReq, error, 404, ErrorJson("Post not found"))
                      ELSE Response("get", id, NoReq, error, 200, PostJson(posts[id]))
    /\ UNCHANGED <<clock, posts, inflight, nCreates, issuedIds, deletedOK, createdAs>>
    /\ UNCHANGED <<clientVars, uploadVars>>

\* The number of characters of a preview (line 49).
PreviewLen == 150

\* The index of the first ">" of s, or 0.
RECURSIVE FirstClose(_)
FirstClose(s) ==
    IF s = <<>> THEN 0
    ELSE IF Head(s) = ">" THEN 1
    ELSE LET k == FirstClose(Tail(s)) IN IF k = 0 THEN 0 ELSE k + 1

\* The index of the first "<" of s that a ">" follows, or 0: where the
\* pattern /<[^>]*>/ first matches.
FirstOpen(s) ==
    LET opens == {j \in 1..Len(s) : s[j] = "<" /\ FirstClose(SubSeq(s, j + 1, Len(s))) > 0}
    IN  IF opens = {} THEN 0 ELSE CHOOSE j \in opens : \A i \in opens : j <= i

\* StripTags without the pattern's g flag: only the first tag is removed.
StripFirstTag(s) ==
    LET j == FirstOpen(s)
    IN  IF j = 0 THEN s
        ELSE SubSeq(s, 1, j - 1)
             \o SubSeq(s, j + FirstClose(SubSeq(s, j + 1, Len(s))) + 1, Len(s))

\* content.replace(/<[^>]*>/g, ''): match after match, every "<" up to the
\* next ">" is removed; a "<" that no ">" follows stays.
RECURSIVE StripTags(_)
StripTags(s) ==
    LET j == FirstOpen(s)
    IN  IF j = 0 THEN s
        ELSE SubSeq(s, 1, j - 1)
             \o StripTags(SubSeq(s, j + FirstClose(SubSeq(s, j + 1, Len(s))) + 1, Len(s)))

\* s.slice(0, n)
Slice(s, n) == SubSeq(s, 1, IF Len(s) < n THEN Len(s) ELSE n)

Preview(content) == Slice(StripTags(content), PreviewLen)

\* Line 44-50: a post as the list answers it.
ListItem(row) ==
    [id |-> row.id, title |-> row.title, createdAt |-> row.created_at,
     updatedAt |-> row.updated_at, preview |-> Preview(row.content)]

\* .order('created_at', { ascending: false }): the orders of the table's rows
\* in which created_at never increases (rows with equal created_at in any order).
OrderedByCreatedDesc(table) ==
    { s \in [1..Cardinality(DOMAIN table) -> DOMAIN table] :
        /\ \A j, k \in DOMAIN s : j # k => s[j] # s[k]
        /\ \A j, k \in DOMAIN s : j < k => table[s[j]].created_at >= table[s[k]].created_at }

\* GET /api/posts.
List ==
    /\ nReq < MaxReqs
    /\ nReq' = nReq + 1
    /\ \E outage \in BOOLEAN :
          IF outage
          THEN last' = Response("list", -1, NoReq, "outage", 500, ErrorJson("outage"))
          ELSE \E s \in OrderedByCreatedDesc(posts) :
                  last' = Response("list", -1, NoReq, NoError, 200,
                                   [k \in DOMAIN s |-> ListItem(posts[s[k]])])
    /\ UNCHANGED <<clock, posts, inflight, nCreates, issuedIds, deletedOK, createdAs>>
    /\ UNCHANGED <<clientVars, uploadVars>>

\* .delete().eq('id', id): the table without the rows of that id.
DeleteRows(table, id) == [i \in DOMAIN table \ {id} |-> table[i]]

\* DELETE /api/posts/:id.
Delete(id) ==
    /\ nReq < MaxReqs
    /\ nReq' = nReq + 1
    /\ \E outage \in BOOLEAN :
          IF outage
          THEN /\ last' = Response("delete", id, NoReq, "outage", 500, ErrorJson("outage"))
               /\ UNCHANGED <<posts, deletedOK, createdAs>>
          ELSE /\ posts' = DeleteRows(posts, id)
               /\ createdAs' = Forgotten(createdAs, id)
               /\ last' = Response("delete", id, NoReq, NoError, 200,
                                   [message |-> "Post deleted"])
               /\ deletedOK' = deletedOK \cup {id}
    /\ UNCHANGED <<clock, inflight, nCreates, issuedIds>>
    /\ UNCHANGED <<clientVars, uploadVars>>

\* The contents of the posts whose previews are listed: nothing or PreviewLen
\* characters of plain text, then up to MaxMarkup characters of markup.
Markup == UNION { [1..n -> {"<", ">", "a"}] : n \in 1..MaxMarkup }

PreviewContents ==
    { [i \in 1..pad |-> "x"] \o m : pad \in {0, PreviewLen}, m \in Markup }

\* The requests that write to the store, the updates being the editors'.
WriteNext ==
    \/ Tick
    \/ \E body \in CreateBodies : CreateBegin(body)
    \/ \E q \in BagToSet(inflight) : CreateApply(q)
    \/ \E id \in Ids, body \in EditBodies : UpdateBegin(id, body)
    \/ \E q \in BagToSet(inflight) : UpdateApply(q)
    \/ \E id \in Ids : Delete(id)

ServerNext ==
    \/ Tick
    \/ \E body \in CreateBodies : CreateBegin(body)
    \/ \E q \in BagToSet(inflight) : CreateApply(q)
    \/ \E id \in Ids, body \in UpdateBodies : UpdateBegin(id, body)
    \/ \E q \in BagToSet(inflight) : UpdateApply(q)
    \/ \E id \in Ids : Get(id)
    \/ List
    \/ \E id \in Ids : Delete(id)

\* ------------------------------------------------------------- the client

Screens == {"blogList", "postView", "editor"}

\* The ids of the posts the server may hold while the page is open.
ClientIds == {"post-1", "post-2"}

Null == "null"
Undefined == "undefined"

\* `if (currentPostId)`: null and undefined are falsy, an id is not.
IsSet(id) == id # Null /\ id # Undefined

\* What the user may type in the title input and the content element.
EditorTexts == {"", " ", "text"}

\* String.prototype.trim(), on the texts above.
Trim(text) == IF text = " " THEN "" ELSE text

\* What a fetch may give: the JSON asked for (a post only when its id is one),
\* the JSON of an error (an object with no id), or a rejected promise (the
\* network failed).
Outcomes == {"post", "error", "reject"}

\* ShowView without lines 21-23: `view` loses 'hidden', nothing gets it.
ShowOnly(h, view) == [s \in Screens |-> h[s] /\ s # view]

\* Line 20-25: all three screens get 'hidden', then `view` loses it. h is the
\* screens' 'hidden' class before the call.
ShowView(h, view) ==
    LET allHidden == [s \in DOMAIN h |-> TRUE]
    IN  [allHidden EXCEPT ![view] = FALSE]

\* `session` once openEditor ran, and once savePost sent a create request.
Opened(new) == [new |-> new, creates |-> 0]

Sent(s) == [s EXCEPT !.creates = @ + 1]

\* `stale` once an await resumed: of each await, no more copies than are left.
Left(old, now) ==
    [p \in {x \in BagToSet(old) : BagIn(x, now)} |->
        IF CopiesIn(p, old) < CopiesIn(p, now) THEN CopiesIn(p, old) ELSE CopiesIn(p, now)]

\* An await of the script: the function waiting, and the id it asked for.
Await(k, id) == [k |-> k, id |-> id]

\* renderPostList() up to its await.
RenderPostList(bag) == bag (+) SetToBag({Await("render", Null)})

\* openPost(id) up to its await.
OpenPost(bag, id) == bag (+) SetToBag({Await("openPost", id)})

\* The page after its script ran (line 285-286): whatever the markup hides, the
\* list is shown, and its posts are being fetched.
ClientInit ==
    /\ \E markup \in [Screens -> BOOLEAN] : hidden = ShowView(markup, "blogList")
    /\ currentPostId = Null
    /\ pending = RenderPostList(EmptyBag)
    /\ cards = {}
    /\ editorTitle = ""
    /\ editorContent = ""
    /\ nActs = 0
    /\ session = Opened(FALSE)
    /\ stale = EmptyBag

\* A user action. The page's markup is not part of the source: a listener
\* runs whenever its event is dispatched, whichever screen is shown.
UserActs ==
    /\ nActs < MaxActs
    /\ nActs' = nActs + 1

\* renderPostList from its await on, with the list fetched.
RenderDone(p, outcome) ==
    /\ BagIn(p, pending) /\ p.k = "render"
    /\ pending' = pending (-) SetToBag({p})
    /\ \E list \in SUBSET ClientIds :
          cards' = IF outcome = "reject" THEN cards
                   ELSE IF outcome = "error" THEN {}
                   ELSE list
    /\ stale' = Left(stale, pending')
    /\ UNCHANGED <<hidden, currentPostId, editorTitle, editorContent, nActs, session>>
    /\ UNCHANGED <<serverVars, uploadVars>>

\* A click on a post card (line 93).
CardClick(id) ==
    /\ UserActs
    /\ id \in cards
    /\ pending' = OpenPost(pending, id)
    /\ UNCHANGED <<hidden, currentPostId, cards, editorTitle, editorContent,
                   session, stale>>
    /\ UNCHANGED <<serverVars, uploadVars>>

\* openPost from its await on (line 101-105).
OpenPostDone(p, outcome) ==
    /\ BagIn(p, pending) /\ p.k = "openPost"
    /\ outcome = "post" => p.id \in ClientIds
    /\ pending' = pending (-) SetToBag({p})
    /\ IF outcome = "reject"
       THEN UNCHANGED <<hidden, currentPostId>>
       ELSE /\ currentPostId' = IF outcome = "post" THEN p.id ELSE Undefined
            /\ hidden' = ShowView(hidden, "postView")
    /\ stale' = Left(stale, pending')
    /\ UNCHANGED <<cards, editorTitle, editorContent, nActs, session>>
    /\ UNCHANGED <<serverVars, uploadVars>>

\* The site title and the back button (line 187-190, 198-201).
GoHome ==
    /\ UserActs
    /\ hidden' = ShowView(hidden, "blogList")
    /\ pending' = RenderPostList(pending)
    /\ stale' = pending
    /\ UNCHANGED <<currentPostId, cards, editorTitle, editorContent, session>>
    /\ UNCHANGED <<serverVars, uploadVars>>

\* The new-post button: openEditor(null).
NewPostClick ==
    /\ UserActs
    /\ currentPostId' = Null
    /\ editorTitle' = ""
    /\ editorContent' = ""
    /\ hidden' = ShowView(hidden, "editor")
    /\ session' = Opened(TRUE)
    /\ stale' = pending
    /\ UNCHANGED <<pending, cards>>
    /\ UNCHANGED <<serverVars, uploadVars>>

\* The edit button up to its await (line 205).
EditClick ==
    /\ UserActs
    /\ pending' = pending (+) SetToBag({Await("edit", currentPostId)})
    /\ UNCHANGED <<hidden, currentPostId, cards, editorTitle, editorContent,
                   session, stale>>
    /\ UNCHANGED <<serverVars, uploadVars>>

\* The edit button from its await on: openEditor(post), post being an object.
EditDone(p, outcome) ==
    /\ BagIn(p, pending) /\ p.k = "edit"
    /\ outcome = "post" => p.id \in ClientIds
    /\ pending' = pending (-) SetToBag({p})
    /\ IF outcome = "reject"
       THEN UNCHANGED <<hidden, currentPostId, editorTitle, editorContent, session>>
       ELSE /\ session' = Opened(FALSE)
            /\ currentPostId' = IF outcome = "post" THEN p.id ELSE Undefined
            /\ editorTitle' = IF outcome = "post" THEN "text" ELSE Undefined
            /\ editorContent' = IF outcome = "post" THEN "text" ELSE Undefined
            /\ hidden' = ShowView(hidden, "editor")
    /\ stale' = Left(stale, pending')
    /\ UNCHANGED <<cards, nActs>>
    /\ UNCHANGED <<serverVars, uploadVars>>

\* The user types in the title input and the content element.
Type(title, content) ==
    /\ UserActs
    /\ editorTitle' = title
    /\ editorContent' = content
    /\ UNCHANGED <<hidden, currentPostId, pending, cards, session, stale>>
    /\ UNCHANGED <<serverVars, uploadVars>>

\* The save button: savePost up to its await (line 125-141).
SaveClick ==
    /\ UserActs
    /\ IF Trim(editorTitle) = "" \/ Trim(editorContent) = ""
       THEN UNCHANGED <<pending, session>>
       ELSE /\ pending' = pending (+) SetToBag(
                {Await(IF IsSet(currentPostId) THEN "update" ELSE "create", currentPostId)})
            /\ session' = IF IsSet(currentPostId) THEN session ELSE Sent(session)
    /\ UNCHANGED <<hidden, currentPostId, cards, editorTitle, editorContent, stale>>
    /\ UNCHANGED <<serverVars, uploadVars>>

\* savePost from its await on (line 143-144).
SaveDone(p, outcome) ==
    /\ BagIn(p, pending) /\ p.k \in {"update", "create"}
    /\ IF outcome = "reject"
       THEN /\ pending' = pending (-) SetToBag({p})
            /\ UNCHANGED hidden
       ELSE /\ pending' = RenderPostList(pending (-) SetToBag({p}))
            /\ hidden' = ShowView(hidden, "blogList")
    /\ stale' = Left(stale, pending')
    /\ UNCHANGED <<currentPostId, cards, editorTitle, editorContent, nActs, session>>
    /\ UNCHANGED <<serverVars, uploadVars>>

\* The delete button up to its await, the user having confirmed (line 211-212).
DeleteClick ==
    /\ UserActs
    /\ \E confirmed \in BOOLEAN :
          pending' = IF confirmed
                     THEN pending (+) SetToBag({Await("delete", currentPostId)})
                     ELSE pending
    /\ UNCHANGED <<hidden, currentPostId, cards, editorTitle, editorContent,
                   session, stale>>
    /\ UNCHANGED <<serverVars, uploadVars>>

\* The delete button from its await on (line 213-215).
DeleteDone(p, outcome) ==
    /\ BagIn(p, pending) /\ p.k = "delete"
    /\ IF outcome = "reject"
       THEN /\ pending' = pending (-) SetToBag({p})
            /\ UNCHANGED <<hidden, currentPostId>>
       ELSE /\ pending' = RenderPostList(pending (-) SetToBag({p}))
            /\ currentPostId' = Null
            /\ hidden' = ShowView(hidden, "blogList")
    /\ stale' = Left(stale, pending')
    /\ UNCHANGED <<cards, editorTitle, editorContent, nActs, session>>
    /\ UNCHANGED <<serverVars, uploadVars>>

\* The cancel button (line 223-230).
CancelClick ==
    /\ UserActs
    /\ IF IsSet(currentPostId)
       THEN /\ pending' = OpenPost(pending, currentPostId)
            /\ UNCHANGED <<hidden, stale>>
       ELSE /\ hidden' = ShowView(hidden, "blogList")
            /\ pending' = RenderPostList(pending)
            /\ stale' = pending
    /\ UNCHANGED <<currentPostId, cards, editorTitle, editorContent, session>>
    /\ UNCHANGED <<serverVars, uploadVars>>

ClientNext ==
    \/ \E p \in BagToSet(pending), outcome \in Outcomes : RenderDone(p, outcome)
    \/ \E id \in ClientIds : CardClick(id)
    \/ \E p \in BagToSet(pending), outcome \in Outcomes : OpenPostDone(p, outcome)
    \/ GoHome
    \/ NewPostClick
    \/ EditClick
    \/ \E p \in BagToSet(pending), outcome \in Outcomes : EditDone(p, outcome)
    \/ \E title \in EditorTexts, content \in EditorTexts : Type(title, content)
    \/ SaveClick
    \/ \E p \in BagToSet(pending), outcome \in Outcomes : SaveDone(p, outcome)
    \/ DeleteClick
    \/ \E p \in BagToSet(pending), outcome \in Outcomes : DeleteDone(p, outcome)
    \/ CancelClick

\* ------------------------------------------------------------- the uploads

\* limits.fileSize of multer (line 24): 50 * 1024 * 1024 bytes.
FileSizeLimit == 52428800

\* The extensions of the fileFilter's pattern (line 26) and those of the page
\* script's video pattern (part_000 line 153), as sequences of characters.
VideoExts == { <<"m", "p", "4">>, <<"w", "e", "b", "m">>, <<"m", "o", "v">> }

AllowedExts ==
    { <<"j", "p", "g">>, <<"j", "p", "e", "g">>, <<"p", "n", "g">>,
      <<"g", "i", "f">>, <<"w", "e", "b", "p">>, <<"s", "v", "g">> } \cup VideoExts

\* A file name is the sequence of its characters; a file is its name and its
\* size in bytes.
File(name, size) == [name |-> name, size |-> size]

\* item.getAsFile() giving null (paste, line 278): the form holds no file.
NoFile == [null |-> TRUE]

\* The files a user hands to the editor.
Files ==
    { File(<<"a", ".", "j", "p", "g">>, 1),
      File(<<"a", ".", "J", "P", "G">>, FileSizeLimit),
      File(<<"a", ".", "j", "p", "g">>, FileSizeLimit + 1),
      File(<<"a", ".", "m", "o", "v">>, 1),
      File(<<"a", ".", "e", "x", "e">>, 1),
      File(<<"a", ".", "j", "p", "g", ".", "e", "x", "e">>, 1),
      File(<<".", "g", "i", "f">>, 1),
      File(<<"j", "p", "g">>, 1),
      NoFile }

\* The lower-case letter of a character (of the characters of the names above).
LowerCase(ch) ==
    CASE ch = "J" -> "j" [] ch = "P" -> "p" [] ch = "G" -> "g" [] OTHER -> ch

ToLowerCase(s) == [i \in 1..Len(s) |-> LowerCase(s[i])]

\* /\.(e1|e2|...)$/i.test(s): s ends with a dot and one of the extensions, in
\* either case.
TestExt(exts, s) ==
    \E e \in exts :
        /\ Len(s) > Len(e)
        /\ ToLowerCase(SubSeq(s, Len(s) - Len(e), Len(s))) = <<".">> \o e

\* path.extname(name): the name from its last dot on; empty when the name has
\* no dot, or only the one it starts with.
ExtName(name) ==
    LET dots == {i \in 1..Len(name) : name[i] = "."}
        k == IF dots = {} THEN 0 ELSE CHOOSE i \in dots : \A j \in dots : j <= i
    IN  IF k <= 1 THEN <<>> ELSE SubSeq(name, k, Len(name))

\* The fileFilter (line 25-32).
FileFilter(file) == TestExt(AllowedExts, ExtName(file.name))

\* A file without multer's `limits`: no size is too large.
NeverTooLarge(file) == FALSE

\* multer's limits.fileSize: a file of more bytes is refused.
TooLarge(file) == file.size > FileSizeLimit

\* The answer to an upload: the status, whether the body is JSON, the body.
Answer(status, json, body) == [status |-> status, json |-> json, body |-> body]

\* No answer (yet).
NoAnswer == Answer(0, FALSE, [none |-> TRUE])

\* express's default error handler, reached by the errors multer passes on:
\* status 500 and a page of HTML.
ErrorPage == Answer(500, FALSE, [html |-> "Internal Server Error"])

\* Line 142: the object's name, Date.now() and the uuid standing as "0".
StoredName(file) == <<"0">> \o ExtName(file.name)

\* An upload in flight: the file sent, and the server's answer once served.
Xfer(file, answer) == [file |-> file, answer |-> answer]

\* The 'uploading' class of editorContent comes from the markup, which is not
\* part of the source: it is taken not to be set.
UploadInit ==
    /\ xfers = EmptyBag
    /\ media = EmptyBag
    /\ uploading = FALSE
    /\ appended = <<>>
    /\ alerts = 0
    /\ nUploads = 0

\* handleFileUpload(file) up to its await (part_000 line 148-152, 66-69),
\* called by the file input, a drop or a paste.
HandleFileUpload(file) ==
    /\ nUploads < MaxUploads
    /\ nUploads' = nUploads + 1
    /\ uploading' = TRUE
    /\ xfers' = xfers (+) SetToBag({Xfer(file, NoAnswer)})
    /\ UNCHANGED <<media, appended, alerts>>
    /\ UNCHANGED <<serverVars, clientVars>>

\* What POST /api/upload does with a file: the answer and the bucket after it.
\* multer refuses the file (fileFilter, then limits) with an error that
\* reaches express's error handler; the handler proper is line 138-158.
UploadResult(file, outage, bucket) ==
    IF file = NoFile
    THEN [answer |-> Answer(400, TRUE, ErrorJson("No file uploaded")), bucket |-> bucket]
    ELSE IF ~FileFilter(file) \/ TooLarge(file)
    THEN [answer |-> ErrorPage, bucket |-> bucket]
    ELSE IF outage
    THEN [answer |-> Answer(500, TRUE, ErrorJson("outage")), bucket |-> bucket]
    ELSE [answer |-> Answer(200, TRUE, [url |-> StoredName(file),
                                        filename |-> StoredName(file)]),
          bucket |-> bucket (+) SetToBag({File(StoredName(file), file.size)})]

\* POST /api/upload, for an upload not served yet.
Upload(x) ==
    /\ BagIn(x, xfers)
    /\ x.answer = NoAnswer
    /\ \E outage \in BOOLEAN :
          LET r == UploadResult(x.file, outage, media)
          IN  /\ media' = r.bucket
              /\ xfers' = (xfers (-) SetToBag({x})) (+) SetToBag({Xfer(x.file, r.answer)})
    /\ UNCHANGED <<uploading, appended, alerts, nUploads>>
    /\ UNCHANGED <<serverVars, clientVars>>

\* An element of the page: its tag and its src attribute.
Element(tag, src) == [tag |-> tag, src |-> src]

\* `el.src = undefined` sets the attribute to the string "undefined".
UndefinedSrc == <<"u", "n", "d", "e", "f", "i", "n", "e", "d">>

\* Line 153-168: the elements appended for a parsed answer `result`. A field
\* the answer lacks is undefined, which the video pattern does not match.
MediaElements(result) ==
    LET isVideo == "filename" \in DOMAIN result /\ TestExt(VideoExts, result.filename)
        src == IF "url" \in DOMAIN result THEN result.url ELSE UndefinedSrc
    IN  <<Element(IF isVideo THEN "video" ELSE "img", src), Element("br", <<>>)>>

\* handleFileUpload from its await on (part_000 line 152-174, 69-70). The
\* fetch rejects when no answer arrives; res.json() rejects when the body is
\* not JSON; a parsed body is used whatever the status.
UploadDone(x) ==
    /\ BagIn(x, xfers)
    /\ xfers' = xfers (-) SetToBag({x})
    /\ IF x.answer = NoAnswer \/ ~x.answer.json
       THEN /\ alerts' = alerts + 1
            /\ UNCHANGED appended
       ELSE /\ appended' = appended \o MediaElements(x.answer.body)
            /\ UNCHANGED alerts
    /\ uploading' = FALSE
    /\ UNCHANGED <<media, nUploads>>
    /\ UNCHANGED <<serverVars, clientVars>>

UploadNext ==
    \/ \E file \in Files : HandleFileUpload(file)
    \/ \E x \in BagToSet(xfers) : Upload(x)
    \/ \E x \in BagToSet(xfers) : UploadDone(x)

\* ------------------------------------------------------ the specifications

vars == <<serverVars, clientVars, uploadVars>>

Init == ServerInit /\ ClientInit /\ UploadInit

\* The server, serving the requests of any clients.
Next == ServerNext

Spec == Init /\ [][Next]_vars

\* The server, serving the requests that write: creates, the updates of
\* concurrent editors, deletes.
WriteSpec == Init /\ [][WriteNext]_vars

\* The server after one create request with a content of the above was served.
PreviewServerInit ==
    /\ \E content \in PreviewContents :
          LET body == [title |-> "t1", content |-> content]
              row == NewPost(body, 0, 0)
          IN  /\ posts = InsertRow(EmptyTable, row)
              /\ last = Response("create", 0, NoReq, NoError, 201, PostJson(row))
              /\ createdAs = Noted(EmptyTable, 0, body)
    /\ clock = 0
    /\ inflight = EmptyBag
    /\ nReq = 1
    /\ nCreates = 1
    /\ issuedIds = {0}
    /\ deletedOK = {}

PreviewInit == PreviewServerInit /\ ClientInit /\ UploadInit

\* The server listing a post, for the contents of PreviewContents.
PreviewNext == List

PreviewSpec == PreviewInit /\ [][PreviewNext]_vars

\* The page script, its requests answered in any way the server may answer.
ClientSpec == Init /\ [][ClientNext]_vars

\* The editor's uploads, between the page script and POST /api/upload.
UploadSpec == Init /\ [][UploadNext]_vars

\* ------------------------------------------------------- the server's claims

\* The updates awaited: the candidates of an UpdateApply step.
Awaited == BagToSet(inflight)

\* C1: a delete request for an id that is not in the post store, served by a
\* working store, is answered 404 with a JSON {error} body and leaves the
\* store unchanged.
C1_DeleteUnknownIsNotFound ==
    [][\A id \in Ids :
          (Delete(id) /\ id \notin DOMAIN posts /\ last'.error = NoError)
          => /\ last'.status = 404
             /\ "error" \in DOMAIN last'.body
             /\ posts' = posts]_vars

IsNewestFirst(items) ==
    \A j, k \in DOMAIN items : j < k => items[j].createdAt >= items[k].createdAt

\* C2: when N create requests with non-empty title and content have been
\* served by a working store, none is still awaited and no delete was
\* served, a list returns exactly N items, newest first.
C2_ListAfterNCreates ==
    (last.op = "list" /\ last.status = 200 /\ deletedOK = {} /\ inflight = EmptyBag)
    => /\ Len(last.body) = nCreates
       /\ IsNewestFirst(last.body)

\* C3: a successful update never stores an updatedAt earlier than the one
\* stored before it. (Stated for the updates that read the clock when the post
\* was already created: the others break it too.)
C3_UpdateAdvancesUpdatedAt ==
    [][\A q \in Awaited :
          (/\ UpdateApply(q) /\ last'.status = 200
           /\ q.data.updated_at >= posts[q.id].created_at)
          => posts'[q.id].updated_at >= posts[q.id].updated_at]_vars

\* C4: every stored post has updatedAt >= createdAt.
C4_UpdatedNotBeforeCreated ==
    \A i \in DOMAIN posts : posts[i].updated_at >= posts[i].created_at

\* C5: a successful update of a post keeps its id and createdAt, keeps its
\* title when the request gives none and its content when the request gives
\* none, changes no field to anything but what the request gives, and leaves
\* every other post as it was.
C5_UpdateFrame ==
    [][\A q \in Awaited :
          (last'.op = "update" /\ last'.status = 200 /\ UpdateApply(q))
          => /\ DOMAIN posts' = DOMAIN posts
             /\ \A i \in DOMAIN posts \ {q.id} : posts'[i] = posts[i]
             /\ posts'[q.id].id = posts[q.id].id
             /\ posts'[q.id].created_at = posts[q.id].created_at
             /\ \A f \in {"title", "content"} :
                   \/ posts'[q.id][f] = posts[q.id][f]
                   \/ f \in DOMAIN q.req /\ posts'[q.id][f] = q.req[f]]_vars

\* A post was updated with a request that gives only a content, while another
\* post is stored.
C5_Witness ==
    /\ last.op = "update" /\ last.status = 200
    /\ DOMAIN last.req = {"content"}
    /\ last.body.content = c2 /\ last.body.title = "t1"
    /\ Cardinality(DOMAIN posts) = 2

\* C6: every stored post has a non-empty title and a non-empty content.
C6_NeverEmpty ==
    \A i \in DOMAIN posts : posts[i].title # "" /\ posts[i].content # <<>>

\* A post was updated with a request whose title is the empty string.
C6_Witness ==
    /\ last.op = "update" /\ last.status = 200
    /\ "title" \in DOMAIN last.req /\ last.req.title = ""
    /\ last.id \in DOMAIN posts

\* C7: a failure of the store is answered 500 with a JSON {error} body, and
\* 404 is answered only when the requested id is not in the store.
C7_StoreFailureIs500 ==
    /\ last.error = "outage" => (last.status = 500 /\ "error" \in DOMAIN last.body)
    /\ last.status = 404 => last.id \notin DOMAIN posts

\* C8: the id a create request is assigned differs from the id assigned to
\* every create request before it, and the post it stores has createdAt equal
\* to updatedAt.
C8_CreateAssignsNewId ==
    [][/\ \A q \in BagToSet(inflight') :
             (q.op = "insert" /\ CopiesIn(q, inflight') > CopiesIn(q, inflight))
             => q.id \notin issuedIds
       /\ \A q \in Awaited :
             (CreateApply(q) /\ last'.status = 201)
             => posts'[q.id].created_at = posts'[q.id].updated_at]_vars

\* C9: once a delete of an id was answered with success, a get of that id is
\* answered not-found.
C9_DeletedStaysDeleted ==
    (last.op = "get" /\ last.id \in deletedOK) => last.status = 404

\* A create request lacks the field, or gives the empty string for it.
LacksTitle(body) == "title" \notin DOMAIN body \/ body.title = ""
LacksContent(body) == "content" \notin DOMAIN body \/ body.content = <<>>

\* C12: a create request whose title or content is missing or empty is
\* answered 400 with a JSON {error} body; no post is added to the store and
\* no insert is issued. (The answer of a step is tested to be a create's
\* before the step is compared with the handler's.)
C12_InvalidCreateRefused ==
    [][\A body \in CreateBodies :
          (/\ last'.op = "create"
           /\ CreateBegin(body) /\ (LacksTitle(body) \/ LacksContent(body)))
          => /\ last'.status = 400
             /\ "error" \in DOMAIN last'.body
             /\ posts' = posts
             /\ BagCardinality(inflight') = BagCardinality(inflight)]_vars

\* A create request was refused while a post is stored.
C12_Witness ==
    /\ last.op = "create" /\ last.status = 400
    /\ posts # EmptyTable

\* A step is the UpdateApply step of q. (What the step leaves unchanged is
\* tested first.)
UpdateApplied(q) ==
    /\ nReq' = nReq /\ clock' = clock /\ last'.op = "update"
    /\ UpdateApply(q)

\* C14: an update request for an id that is not in the store is answered 404
\* with a JSON {error} body and leaves the store as it was: no post is
\* created, none is modified.
C14_UpdateUnknownIsNotFound ==
    [][\A q \in Awaited :
          (UpdateApplied(q) /\ q.id \notin DOMAIN posts)
          => /\ last'.status = 404
             /\ "error" \in DOMAIN last'.body
             /\ posts' = posts]_vars

\* An update of an id that is not stored was answered by a working store,
\* while another post is stored.
C14_Witness ==
    /\ last.op = "update" /\ last.error = "norows"
    /\ last.id \notin DOMAIN posts
    /\ posts # EmptyTable

\* C17: an update request that gives a title and a content, applied by a
\* working store to a stored post, is answered 200 (never refused as a
\* conflict, whatever other updates are awaited) and leaves the post with its
\* own title and its own content: the post holds the pair of the request
\* applied last, never one request's title with another's content.
C17_LastWriteWins ==
    [][\A q \in Awaited :
          (/\ UpdateApplied(q) /\ q.id \in DOMAIN posts
           /\ last'.error # "outage"
           /\ ~LacksTitle(q.req) /\ ~LacksContent(q.req))
          => /\ last'.status = 200
             /\ posts'[q.id].title = q.req.title
             /\ posts'[q.id].content = q.req.content]_vars

\* Two editors' updates of one post were awaited together; one was applied
\* and the post holds its title and content, the other is still awaited.
C17_Witness ==
    /\ last.op = "update" /\ last.status = 200
    /\ posts[last.id].title = last.req.title
    /\ \E q \in Awaited :
          /\ q.op = "update" /\ q.id = last.id
          /\ q.req \in EditBodies /\ last.req \in EditBodies
          /\ q.req.title # last.req.title /\ q.req.content # last.req.content

\* C13: a get of an id answered with success, the post of that id having been
\* stored by a create and neither updated nor deleted since, returns the
\* title and the content given to that create.
C13_GetReturnsCreated ==
    (last.op = "get" /\ last.status = 200 /\ last.id \in DOMAIN createdAs)
    => /\ last.body.title = createdAs[last.id].title
       /\ last.body.content = createdAs[last.id].content

\* A get returned a post as its create stored it.
C13_Witness ==
    /\ last.op = "get" /\ last.status = 200
    /\ last.id \in DOMAIN createdAs

\* The character i of s is part of a tag: of a "<" and what follows it up to
\* the next ">".
InTag(s, i) ==
    \E j \in 1..i :
        /\ s[j] = "<"
        /\ \E k \in i..Len(s) : s[k] = ">" /\ \A m \in j..(k - 1) : s[m] # ">"

\* The indices of the characters of s that are part of no tag.
Untagged(s) == {i \in 1..Len(s) : ~InTag(s, i)}

\* C16: the preview a list returns for a post is the first 150 characters of
\* the post's content without its tags: it has at most 150 characters, and
\* its n-th character is the n-th character of the content that is part of
\* no tag; it ends before the 150th only where these end.
C16_PreviewIsStrippedPrefix ==
    (last.op = "list" /\ last.status = 200)
    => \A n \in DOMAIN last.body :
          LET preview == last.body[n].preview
              content == posts[last.body[n].id].content
              text == Untagged(content)
              rank(i) == Cardinality({j \in text : j <= i})
          IN  /\ Len(preview) <= 150
              /\ Len(preview) = 150 \/ Len(preview) = Cardinality(text)
              /\ \A i \in text : rank(i) <= 150 =>
                    /\ rank(i) <= Len(preview)
                    /\ preview[rank(i)] = content[i]

\* A list returned a preview of 150 characters for a content that has a tag
\* and more than 150 characters outside its tags.
C16_Witness ==
    /\ last.op = "list" /\ last.status = 200
    /\ Len(last.body[1].preview) = 150
    /\ \E i \in DOMAIN posts[0].content : InTag(posts[0].content, i)
    /\ Cardinality(Untagged(posts[0].content)) > 150

\* ------------------------------------------------------- the client's claims

Visible == {s \in Screens : ~hidden[s]}

\* C10: exactly one of the three screens is visible.
C10_OneScreenVisible == Cardinality(Visible) = 1

\* The editor is shown while a fetch started by an earlier action is awaited.
C10_Witness ==
    /\ Visible = {"editor"}
    /\ \E p \in BagToSet(pending) : p.k = "openPost"

\* C18: while the editor, opened for a new post, is shown, savePost has sent
\* at most one create request since it was opened.
C18_OneCreatePerSession ==
    (Visible = {"editor"} /\ session.new) => session.creates <= 1

\* Every copy of the await p is stale: started before the user's latest click
\* that shows a screen at once.
AllStale(p) == BagIn(p, stale) /\ CopiesIn(p, stale) = CopiesIn(p, pending)

\* C19: when the answer to openPost (a click on a post card, or Cancel)
\* arrives after a later click has shown a screen (home, back, new post,
\* cancel of a new post), it changes neither the screen shown nor
\* currentPostId.
C19_LateAnswerKeepsScreen ==
    [][\A p \in BagToSet(pending) :
          (/\ p.k = "openPost" /\ AllStale(p)
           /\ CopiesIn(p, pending') < CopiesIn(p, pending))
          => /\ hidden' = hidden
             /\ currentPostId' = currentPostId]_vars

\* ------------------------------------------------------ the uploads' claims

\* An upload failed: no answer arrived, or the answer's status is not 200.
UploadFailed(x) == x.answer = NoAnswer \/ x.answer.status # 200

\* C11: when an upload started from the editor fails (the server refuses the
\* file, receives no file, or the media store fails), handleFileUpload shows
\* an alert and appends no element to the editor content.
C11_FailedUploadAlerts ==
    [][\A x \in BagToSet(xfers) :
          (UploadDone(x) /\ UploadFailed(x))
          => /\ alerts' = alerts + 1
             /\ appended' = appended]_vars

\* The step answers the upload x with this status.
Answered(x, status) ==
    \E y \in BagToSet(xfers') :
        /\ y.file = x.file /\ y.answer.status = status
        /\ CopiesIn(y, xfers') > CopiesIn(y, xfers)

\* C15: an upload is accepted (answered 200) only if its file's name ends with
\* a dot and one of the nine extensions, in either case, and the file has at
\* most 50MB; every other upload is answered with an error status and the
\* media store holds what it held.
C15_OnlyAllowedFilesStored ==
    [][\A x \in BagToSet(xfers) :
          (x.answer = NoAnswer /\ Upload(x))
          => LET allowed == /\ x.file # NoFile
                            /\ TestExt(AllowedExts, x.file.name)
                            /\ x.file.size <= FileSizeLimit
             IN  /\ Answered(x, 200) => allowed
                 /\ ~allowed => /\ Answered(x, 400) \/ Answered(x, 500)
                                /\ media' = media]_vars

\* A file of 50MB with an upper-case extension was stored, and a file of one
\* byte more was refused.
C15_Witness ==
    /\ \E f \in BagToSet(media) : f.size = FileSizeLimit
    /\ \E x \in BagToSet(xfers) :
          x.answer.status = 500 /\ x.file # NoFile /\ x.file.size > FileSizeLimit

\* C20: the editor content carries the 'uploading' class exactly while an
\* upload started by handleFileUpload is in flight: in every such state, and
\* in no state where none is.
C20_UploadingWhileInFlight == uploading <=> (BagCardinality(xfers) > 0)

====
